---- MODULE Spec2Model ----
(***************************************************************************)
(* The retrieval / grading / generation agent of src/rag_agent.py          *)
(* (RAGAgent): one `ask` invocation driven through the LangGraph workflow  *)
(* built by build_graph.  The collaborators (language detector, sentence   *)
(* encoder, FAISS index, Ollama LLM) are the environment: each call draws  *)
(* its outcome, a returned value or a raised exception, from a small set.  *)
(***************************************************************************)
EXTENDS Integers, Sequences, FiniteSets, TLC

VARIABLES
    indices,        \* self.indices: language -> [loaded, ntotal]; loaded = FALSE is None
    chunks_dict,    \* self.chunks_dict: language -> list of passage texts
    metadata_dict,  \* self.metadata_dict: language -> list of metadata entries
    state,          \* the AgentState threaded through the graph
    pc,             \* the node about to run, "idle", "END" or "raised"
    steps,          \* graph super-steps executed by this invoke
    gi,             \* grader_docs_node: position of the `for doc in docs` loop
    relevant_docs,  \* grader_docs_node: the local list relevant_docs
    error,          \* the exception that left ask, "none" otherwise
    result,         \* what ask returned
    calls,          \* per invocation: node visits and collaborator calls
    dupHit,         \* rewriter_node took its `question in historical_questions` branch
    search_ids,     \* retriever_node: indices[0] of the round's search, <<>> if none
    kept,           \* the relevant_docs the last grader_docs_node returned
    context,        \* generate_node: the context it put in its prompt
    memo,           \* what each collaborator answered to each input so far
    trace,          \* the question asked, then the nodes the invocation went through
    ref,            \* question -> how the first completed ask of it went
    asks,           \* ask invocations started so far
    other,          \* the locals of the invocation that is not running now
    build           \* the globals of Chunking_embedding.py, the script that
                    \* builds an index and its passage file

vars == <<indices, chunks_dict, metadata_dict, state, pc, steps, gi,
          relevant_docs, error, result, calls, dupHit, search_ids, kept,
          context, memo, trace, ref, asks, other, build>>

\* the agent's attributes and the locals of the running invocation
vars_agent == <<indices, chunks_dict, metadata_dict, state, pc, steps, gi,
                relevant_docs, error, result, calls, dupHit, search_ids, kept,
                context>>

\* the bookkeeping of repeated and interleaved invocations
invocations == <<memo, trace, ref, asks, other>>

(***************************************************************************)
(* Bounds of the model.                                                    *)
(***************************************************************************)
MaxPassages == 2    \* passages in a loaded index: 0..MaxPassages
MaxQueries == 3     \* distinct query texts: QueryText(0..MaxQueries)
MaxAsks == 2        \* ask invocations on one agent

(***************************************************************************)
(* Program constants.                                                      *)
(***************************************************************************)
K == 10                 \* search(query_vector, 10)
RetryCeiling == 3       \* len(historical_questions) >= 3
\* app.invoke is called without a config, so LangGraph's default
\* recursion_limit applies: the invoke raises GraphRecursionError when the
\* graph has not reached END after this many super-steps.
RecursionLimit == 25

Languages == {"arabic", "english"}

UnsupportedMsg == "Sorry, only Arabic and English are supported."
IndexMsg(language) == "Sorry, " \o language \o " index is not available."
\* the Arabic literal of rewriter_node, transliterated
NotFoundMsgAr == "lam atamakkan min iijad maelumat dhat sila baed muhawalat mutaeadida."
NotFoundMsgEn == "Could not find relevant information after multiple attempts."
\* the message without its Arabic variant
NotFoundMsg_AlwaysEnglish(language) == NotFoundMsgEn

NotFoundMsg(language) == IF language = "arabic" THEN NotFoundMsgAr ELSE NotFoundMsgEn

(***************************************************************************)
(* Python string operations used by the nodes.                             *)
(***************************************************************************)
Whitespace == {" ", "\n", "\t", "\r"}

RECURSIVE LStrip(_)
LStrip(s) ==
    IF Len(s) > 0 /\ SubSeq(s, 1, 1) \in Whitespace
    THEN LStrip(SubSeq(s, 2, Len(s)))
    ELSE s

RECURSIVE RStrip(_)
RStrip(s) ==
    IF Len(s) > 0 /\ SubSeq(s, Len(s), Len(s)) \in Whitespace
    THEN RStrip(SubSeq(s, 1, Len(s) - 1))
    ELSE s

\* str.strip()
Strip(s) == RStrip(LStrip(s))

UpperChars == "ABCDEFGHIJKLMNOPQRSTUVWXYZ"
LowerChars == "abcdefghijklmnopqrstuvwxyz"

LowerChar(c) ==
    IF \E i \in 1..26 : SubSeq(UpperChars, i, i) = c
    THEN LET i == CHOOSE j \in 1..26 : SubSeq(UpperChars, j, j) = c
         IN  SubSeq(LowerChars, i, i)
    ELSE c

\* str.lower()
RECURSIVE Lower(_)
Lower(s) ==
    IF Len(s) = 0 THEN s
    ELSE LowerChar(SubSeq(s, 1, 1)) \o Lower(SubSeq(s, 2, Len(s)))

\* `sub in s` on strings
Contains(s, sub) ==
    \E i \in 1..(Len(s) - Len(sub) + 1) : SubSeq(s, i, i + Len(sub) - 1) = sub

\* a membership test that never finds the element
InList_Never(x, lst) == FALSE

\* `x in lst` on lists
InList(x, lst) == \E i \in 1..Len(lst) : lst[i] = x

\* lst[idx] with Python's indexing: 0-based, negative idx counts from the end
InRange(lst, idx) == idx < Len(lst) /\ idx >= 0 - Len(lst)
PyIndex(lst, idx) == IF idx >= 0 THEN lst[idx + 1] ELSE lst[Len(lst) + idx + 1]

(***************************************************************************)
(* The environment's values.                                               *)
(***************************************************************************)
Passage(language, i) == language \o "-passage-" \o ToString(i)
QueryText(i) == "query " \o ToString(i)
Queries == {QueryText(i) : i \in 0..MaxQueries}
\* the questions ask is called with
Questions == {QueryText(0), QueryText(1)}

\* what the language detector answers: a label, or it raises
DetectorError == "<error>"
DetectorLabels == {"ar", "en", "fr"}

\* what the LLM answers: a text, or the call raises
LLMError == "<LLM error>"
GraderOutputs == {"yes", " Yes.\n", "no", "No, unrelated."}
RewriterOutputs == Queries \cup {" " \o q \o "\n" : q \in Queries}
GenerateOutputs == {"Petra is a historical city in Jordan.\n", ""}

\* IndexFlatL2.search(v, k) on an index of n vectors: the ids of the
\* min(n, k) nearest vectors, closest first, then -1 for each missing neighbour.
SearchResults(n, k) ==
    LET m == IF n < k THEN n ELSE k
        nearest == {f \in [1..m -> 0..(n - 1)] :
                        \A i, j \in 1..m : i # j => f[i] # f[j]}
    IN  {[i \in 1..k |-> IF i <= m THEN f[i] ELSE -1] : f \in nearest}

NoCalls == [retrieve |-> 0, grade |-> 0, rewrite |-> 0, generate |-> 0,
            encode |-> 0, search |-> 0, llm |-> 0, detect |-> 0,
            rewrite_llm |-> 0]

\* the value of AgentState before ask has built one
NoState == [question |-> "", Answer |-> "", docs |-> <<>>,
            historical_questions |-> <<>>, language |-> "unsupported"]

\* no ask of the question has completed yet
NoRef == [trace |-> <<>>, result |-> "", error |-> "none", state |-> NoState]

\* the locals of an invocation that has not started
NoInvocation ==
    [state |-> NoState, pc |-> "idle", steps |-> 0, gi |-> 0,
     relevant_docs |-> <<>>, error |-> "none", result |-> "", calls |-> NoCalls,
     dupHit |-> FALSE, search_ids |-> <<>>, kept |-> <<>>, context |-> "",
     trace |-> <<>>]

\* Chunking_embedding.py before its loop: an empty index, no passages, no
\* metadata, the first of FILES_TO_PROCESS next
NoBuild ==
    [file |-> 1, index |-> <<>>, chunks |-> <<>>, metadata |-> <<>>,
     error |-> "none", saved |-> FALSE]

(***************************************************************************)
(* RAGAgent.__init__ / load_index: the state after construction.           *)
(***************************************************************************)
\* load_index succeeded with n passages
Loaded(language, n) ==
    [index |-> [loaded |-> TRUE, ntotal |-> n],
     chunks |-> [i \in 1..n |-> Passage(language, i)],
     metadata |-> [i \in 1..n |-> [language |-> language]]]

\* load_index took its except branch
LoadFailed ==
    [index |-> [loaded |-> FALSE, ntotal |-> 0], chunks |-> <<>>, metadata |-> <<>>]

load_index(language) ==
    {LoadFailed} \cup {Loaded(language, n) : n \in 0..MaxPassages}

\* the attributes of the agent once both load_index calls are over
Constructed ==
    \E ld \in [Languages -> UNION {load_index(l) : l \in Languages}] :
        /\ \A l \in Languages : ld[l] \in load_index(l)
        /\ indices = [l \in Languages |-> ld[l].index]
        /\ chunks_dict = [l \in Languages |-> ld[l].chunks]
        /\ metadata_dict = [l \in Languages |-> ld[l].metadata]

Init ==
    /\ Constructed
    /\ state = NoState
    /\ pc = "idle"
    /\ steps = 0
    /\ gi = 0
    /\ relevant_docs = <<>>
    /\ error = "none"
    /\ result = ""
    /\ calls = NoCalls
    /\ dupHit = FALSE
    /\ search_ids = <<>>
    /\ kept = <<>>
    /\ context = ""
    /\ memo = <<>>
    /\ trace = <<>>
    /\ ref = [question \in Questions |-> NoRef]
    /\ asks = 0
    /\ other = NoInvocation
    /\ build = NoBuild

(***************************************************************************)
(* load_index, statement by statement, on the files it is given.  The      *)
(* constructor starts from three empty dicts and calls it for Arabic, then *)
(* for English.                                                            *)
(***************************************************************************)
\* what faiss.read_index finds: no readable index, or one of ntotal vectors
IndexFiles ==
    {[readable |-> FALSE, ntotal |-> 0]} \cup
    {[readable |-> TRUE, ntotal |-> n] : n \in 0..MaxPassages}

PklKeys == {"chunks", "metadata"}

\* what open / pickle.load find: nothing that unpickles, or a dict with
\* some of the two keys and n passages
PklFiles ==
    {[unpickles |-> FALSE, keys |-> {}, n |-> 0]} \cup
    {[unpickles |-> TRUE, keys |-> ks, n |-> n] :
        ks \in SUBSET PklKeys, n \in 0..MaxPassages}

\* dict[key] = value
SetItem(dict, key, value) ==
    [k \in DOMAIN dict \cup {key} |-> IF k = key THEN value ELSE dict[k]]

\* self.indices, self.chunks_dict, self.metadata_dict
Attributes == [indices |-> indices, chunks_dict |-> chunks_dict,
               metadata_dict |-> metadata_dict]

\* the handler that marks the index and leaves the passages as they are
LoadExcept_KeepsPassages(language, attrs) ==
    [attrs EXCEPT !.indices = SetItem(@, language, LoadFailed.index)]

\* the except branch: lines 55-59
LoadExcept(language, attrs) ==
    [indices |-> SetItem(attrs.indices, language, LoadFailed.index),
     chunks_dict |-> SetItem(attrs.chunks_dict, language, LoadFailed.chunks),
     metadata_dict |-> SetItem(attrs.metadata_dict, language, LoadFailed.metadata)]

\* the try block: each statement works on what the one before it left, and
\* the first that raises hands what is left to the except branch
LoadTry(language, index_file, pkl_file, attrs) ==
    LET data == Loaded(language, pkl_file.n)
        read == [attrs EXCEPT !.indices =
                    SetItem(@, language,
                            [loaded |-> TRUE, ntotal |-> index_file.ntotal])]
        chunks == [read EXCEPT !.chunks_dict =
                    SetItem(@, language, data.chunks)]
        meta == [chunks EXCEPT !.metadata_dict =
                    SetItem(@, language, data.metadata)]
    IN  IF ~index_file.readable THEN LoadExcept(language, attrs)
        ELSE IF ~pkl_file.unpickles THEN LoadExcept(language, read)
        ELSE IF "chunks" \notin pkl_file.keys THEN LoadExcept(language, read)
        ELSE IF "metadata" \notin pkl_file.keys THEN LoadExcept(language, chunks)
        ELSE meta

\* the position of the constructor: which load_index call comes next
LoadCall(language) == "load_index " \o language

AfterLoad(language) == IF language = "arabic" THEN LoadCall("english") ELSE "idle"

LoadIndex(language, index_file, pkl_file) ==
    /\ pc = LoadCall(language)
    /\ LET attrs == LoadTry(language, index_file, pkl_file, Attributes)
       IN  /\ indices' = attrs.indices
           /\ chunks_dict' = attrs.chunks_dict
           /\ metadata_dict' = attrs.metadata_dict
    /\ pc' = AfterLoad(language)
    /\ UNCHANGED <<state, steps, gi, relevant_docs, error, result, calls,
                   dupHit, search_ids, kept, context>>

\* lines 31-33: the three dicts are empty when the first load_index starts
InitLoad ==
    /\ indices = <<>>
    /\ chunks_dict = <<>>
    /\ metadata_dict = <<>>
    /\ state = NoState
    /\ pc = LoadCall("arabic")
    /\ steps = 0
    /\ gi = 0
    /\ relevant_docs = <<>>
    /\ error = "none"
    /\ result = ""
    /\ calls = NoCalls
    /\ dupHit = FALSE
    /\ search_ids = <<>>
    /\ kept = <<>>
    /\ context = ""
    /\ memo = <<>>
    /\ trace = <<>>
    /\ ref = [question \in Questions |-> NoRef]
    /\ asks = 0
    /\ other = NoInvocation
    /\ build = NoBuild

LoadArabic ==
    \E index_file \in IndexFiles, pkl_file \in PklFiles :
        LoadIndex("arabic", index_file, pkl_file)

LoadEnglish ==
    \E index_file \in IndexFiles, pkl_file \in PklFiles :
        LoadIndex("english", index_file, pkl_file)

NextLoad ==
    \/ LoadArabic /\ UNCHANGED <<invocations, build>>
    \/ LoadEnglish /\ UNCHANGED <<invocations, build>>

SpecLoad == InitLoad /\ [][NextLoad]_vars

(***************************************************************************)
(* detect_language                                                         *)
(***************************************************************************)
\* detect_language that does what its message says: "Defaulting to English"
detect_language_DefaultsToEnglish(label) ==
    IF label = DetectorError THEN "unsupported"
    ELSE IF label = "ar" THEN "arabic"
    ELSE "english"

detect_language(label) ==
    IF label = DetectorError THEN "unsupported"
    ELSE IF label = "ar" THEN "arabic"
    ELSE IF label = "en" THEN "english"
    ELSE "unsupported"

(***************************************************************************)
(* ask: detect the language, then invoke the graph at its entry point.     *)
(***************************************************************************)
\* ask that hands the graph the history list of the previous call
Ask_KeepsHistory(question, label) ==
    /\ pc = "idle"
    /\ state' = [question |-> question, Answer |-> "", docs |-> <<>>,
                 historical_questions |-> state.historical_questions,
                 language |-> detect_language(label)]
    /\ pc' = "retriever"
    /\ steps' = 0
    /\ calls' = [NoCalls EXCEPT !.detect = 1]
    /\ UNCHANGED <<indices, chunks_dict, metadata_dict, gi, relevant_docs,
                   error, result, dupHit, search_ids, kept, context>>

Ask(question, label) ==
    /\ pc = "idle"
    /\ state' = [question |-> question, Answer |-> "", docs |-> <<>>,
                 historical_questions |-> <<>>,
                 language |-> detect_language(label)]
    /\ pc' = "retriever"
    /\ steps' = 0
    /\ calls' = [NoCalls EXCEPT !.detect = 1]
    /\ UNCHANGED <<indices, chunks_dict, metadata_dict, gi, relevant_docs,
                   error, result, dupHit, search_ids, kept, context>>

\* an exception leaves the node, the graph and ask
Raise(e) ==
    /\ pc' = "raised"
    /\ error' = e

Nodes == {"retriever", "grader", "generate", "rewriter"}

\* the graph is about to run one more node after RecursionLimit super-steps
GraphRecursionError ==
    /\ pc \in Nodes
    /\ steps >= RecursionLimit
    /\ Raise("GraphRecursionError")
    /\ UNCHANGED <<indices, chunks_dict, metadata_dict, state, steps, gi,
                   relevant_docs, result, calls, dupHit, search_ids, kept,
                   context>>

(***************************************************************************)
(* retriever_node                                                          *)
(***************************************************************************)
\* an unsupported language falls back to English for the rest of the call
RetrieveUnsupported_FallsBack ==
    /\ pc = "retriever"
    /\ steps < RecursionLimit
    /\ state.language = "unsupported"
    /\ state' = [state EXCEPT !.Answer = UnsupportedMsg, !.docs = <<>>,
                              !.language = "english"]
    /\ pc' = "grader"
    /\ steps' = steps + 1
    /\ calls' = [calls EXCEPT !.retrieve = @ + 1]
    /\ UNCHANGED <<indices, chunks_dict, metadata_dict, gi, relevant_docs,
                   error, result, dupHit, kept, context>>
    /\ search_ids' = <<>>

RetrieveUnsupported ==
    /\ pc = "retriever"
    /\ steps < RecursionLimit
    /\ state.language = "unsupported"
    /\ state' = [state EXCEPT !.Answer = UnsupportedMsg, !.docs = <<>>]
    /\ pc' = "grader"
    /\ steps' = steps + 1
    /\ calls' = [calls EXCEPT !.retrieve = @ + 1]
    /\ UNCHANGED <<indices, chunks_dict, metadata_dict, gi, relevant_docs,
                   error, result, dupHit, kept, context>>
    /\ search_ids' = <<>>

\* a missing index is replaced by an empty one on the agent
RetrieveNoIndex_StoresIndex ==
    /\ pc = "retriever"
    /\ steps < RecursionLimit
    /\ state.language # "unsupported"
    /\ state.language \notin DOMAIN indices \/ ~indices[state.language].loaded
    /\ state' = [state EXCEPT !.Answer = IndexMsg(state.language), !.docs = <<>>]
    /\ pc' = "grader"
    /\ steps' = steps + 1
    /\ calls' = [calls EXCEPT !.retrieve = @ + 1]
    /\ indices' = [indices EXCEPT ![state.language] =
                        [loaded |-> TRUE, ntotal |-> 0]]
    /\ UNCHANGED <<chunks_dict, metadata_dict, gi, relevant_docs,
                   error, result, dupHit, kept, context>>
    /\ search_ids' = <<>>

RetrieveNoIndex ==
    /\ pc = "retriever"
    /\ steps < RecursionLimit
    /\ state.language # "unsupported"
    /\ state.language \notin DOMAIN indices \/ ~indices[state.language].loaded
    /\ state' = [state EXCEPT !.Answer = IndexMsg(state.language), !.docs = <<>>]
    /\ pc' = "grader"
    /\ steps' = steps + 1
    /\ calls' = [calls EXCEPT !.retrieve = @ + 1]
    /\ UNCHANGED <<indices, chunks_dict, metadata_dict, gi, relevant_docs,
                   error, result, dupHit, kept, context>>
    /\ search_ids' = <<>>

\* self.model.encode raises
RetrieveEncodeFails ==
    /\ pc = "retriever"
    /\ steps < RecursionLimit
    /\ state.language \in DOMAIN indices
    /\ indices[state.language].loaded
    /\ Raise("EncodeError")
    /\ calls' = [calls EXCEPT !.retrieve = @ + 1, !.encode = @ + 1]
    /\ UNCHANGED <<indices, chunks_dict, metadata_dict, state, steps, gi,
                   relevant_docs, result, dupHit, search_ids, kept, context>>

\* index.search raises
RetrieveSearchFails ==
    /\ pc = "retriever"
    /\ steps < RecursionLimit
    /\ state.language \in DOMAIN indices
    /\ indices[state.language].loaded
    /\ Raise("SearchError")
    /\ calls' = [calls EXCEPT !.retrieve = @ + 1, !.encode = @ + 1, !.search = @ + 1]
    /\ UNCHANGED <<indices, chunks_dict, metadata_dict, state, steps, gi,
                   relevant_docs, result, dupHit, search_ids, kept, context>>

\* [self.chunks_dict[language][idx] for idx in indices[0]], skipping the nearest
context_chunks_SkipsNearest(chunks, ids) ==
    [i \in 1..(Len(ids) - 1) |-> PyIndex(chunks, ids[i + 1])]

\* [self.chunks_dict[language][idx] for idx in indices[0]]
context_chunks(chunks, ids) ==
    [i \in 1..Len(ids) |-> PyIndex(chunks, ids[i])]

\* the passages are read from the English list whatever the language
PassageList_English(language) == chunks_dict["english"]

\* self.chunks_dict[language]
PassageList(language) == chunks_dict[language]

RetrieveSearch ==
    /\ pc = "retriever"
    /\ steps < RecursionLimit
    /\ state.language \in DOMAIN indices
    /\ indices[state.language].loaded
    /\ \E ids \in SearchResults(indices[state.language].ntotal, K) :
        LET chunks == PassageList(state.language)
        IN  IF \A i \in 1..K : InRange(chunks, ids[i])
            THEN /\ state' = [state EXCEPT
                        !.docs = context_chunks(chunks, ids)]
                 /\ pc' = "grader"
                 /\ steps' = steps + 1
                 /\ search_ids' = ids
                 /\ UNCHANGED error
            ELSE /\ Raise("IndexError")
                 /\ UNCHANGED <<state, steps, search_ids>>
    /\ calls' = [calls EXCEPT !.retrieve = @ + 1, !.encode = @ + 1, !.search = @ + 1]
    /\ UNCHANGED <<indices, chunks_dict, metadata_dict, gi, relevant_docs,
                   result, dupHit, kept, context>>

retriever_node ==
    \/ RetrieveUnsupported
    \/ RetrieveNoIndex
    \/ RetrieveEncodeFails
    \/ RetrieveSearchFails
    \/ RetrieveSearch

(***************************************************************************)
(* grader_docs_node: one LLM call per candidate, in order.                 *)
(***************************************************************************)
\* the code from `question = state['question']` to `relevant_docs = []`
GraderEnter ==
    /\ pc = "grader"
    /\ steps < RecursionLimit
    /\ gi = 0
    /\ gi' = 1
    /\ relevant_docs' = <<>>
    /\ calls' = [calls EXCEPT !.grade = @ + 1]
    /\ UNCHANGED <<indices, chunks_dict, metadata_dict, state, pc, steps,
                   error, result, dupHit, search_ids, kept, context>>

\* the verdict without .lower(): "yes" in result.strip()
Relevant_CaseSensitive(response) == Contains(Strip(response), "yes")

\* the grader's verdict on one LLM response: "yes" in result.strip().lower()
Relevant(response) == Contains(Lower(Strip(response)), "yes")
\* ... tabulated over the responses the LLM gives
GraderVerdict == [response \in GraderOutputs |-> Relevant(response)]

\* relevant_docs.insert(0, doc): the kept document goes to the front
AppendDoc_AtFront(relevant, doc) == <<doc>> \o relevant

\* relevant_docs.append(doc)
AppendDoc(relevant, doc) == Append(relevant, doc)

\* an iteration whose LLM error ends the loop: `break` for `continue`
GraderIteration_ErrorEndsLoop(response) ==
    /\ pc = "grader"
    /\ gi >= 1
    /\ gi <= Len(state.docs)
    /\ relevant_docs' =
            IF response # LLMError /\ GraderVerdict[response]
            THEN AppendDoc(relevant_docs, state.docs[gi])
            ELSE relevant_docs
    /\ gi' = IF response = LLMError THEN Len(state.docs) + 1 ELSE gi + 1
    /\ calls' = [calls EXCEPT !.llm = @ + 1]
    /\ UNCHANGED <<indices, chunks_dict, metadata_dict, state, pc, steps,
                   error, result, dupHit, search_ids, kept, context>>

\* an iteration that keeps a relevant document only if it is not kept yet
GraderIteration_SkipsKept(response) ==
    /\ pc = "grader"
    /\ gi >= 1
    /\ gi <= Len(state.docs)
    /\ relevant_docs' =
            IF /\ response # LLMError /\ GraderVerdict[response]
               /\ ~InList(state.docs[gi], relevant_docs)
            THEN AppendDoc(relevant_docs, state.docs[gi])
            ELSE relevant_docs
    /\ gi' = gi + 1
    /\ calls' = [calls EXCEPT !.llm = @ + 1]
    /\ UNCHANGED <<indices, chunks_dict, metadata_dict, state, pc, steps,
                   error, result, dupHit, search_ids, kept, context>>

\* one iteration of `for doc in docs`, the LLM answering `response`; an LLM
\* error is caught and skipped
GraderIteration(response) ==
    /\ pc = "grader"
    /\ gi >= 1
    /\ gi <= Len(state.docs)
    /\ relevant_docs' =
            IF response # LLMError /\ GraderVerdict[response]
            THEN AppendDoc(relevant_docs, state.docs[gi])
            ELSE relevant_docs
    /\ gi' = gi + 1
    /\ calls' = [calls EXCEPT !.llm = @ + 1]
    /\ UNCHANGED <<indices, chunks_dict, metadata_dict, state, pc, steps,
                   error, result, dupHit, search_ids, kept, context>>

GraderStep ==
    \E response \in GraderOutputs \cup {LLMError} : GraderIteration(response)

\* the loop is over: return the state with docs = relevant_docs
\* the node returns 'Answer': '' in place of state.get('Answer', '')
GraderReturn_ClearsAnswer ==
    /\ pc = "grader"
    /\ gi > Len(state.docs)
    /\ state' = [state EXCEPT !.docs = relevant_docs, !.Answer = ""]
    /\ pc' = "decide"
    /\ steps' = steps + 1
    /\ gi' = 0
    /\ relevant_docs' = <<>>
    /\ kept' = relevant_docs
    /\ UNCHANGED <<indices, chunks_dict, metadata_dict, error, result,
                   calls, dupHit, search_ids, context>>

GraderReturn ==
    /\ pc = "grader"
    /\ gi > Len(state.docs)
    /\ state' = [state EXCEPT !.docs = relevant_docs]
    /\ pc' = "decide"
    /\ steps' = steps + 1
    /\ gi' = 0
    /\ relevant_docs' = <<>>
    /\ kept' = relevant_docs
    /\ UNCHANGED <<indices, chunks_dict, metadata_dict, error, result,
                   calls, dupHit, search_ids, context>>

grader_docs_node ==
    \/ GraderEnter
    \/ GraderStep
    \/ GraderReturn

(***************************************************************************)
(* decision_node: the conditional edge leaving the grader.                 *)
(***************************************************************************)
\* decision_node without its unsupported-language check
decision_node_NoLanguageCheck(s) ==
    IF Len(s.docs) > 0 THEN "generate"
    ELSE IF Len(s.historical_questions) >= RetryCeiling THEN "end"
    ELSE "rewrite"

\* decision_node with `>` for `>=` in the retry test
decision_node_StrictCeiling(s) ==
    IF s.language = "unsupported" THEN "end"
    ELSE IF Len(s.docs) > 0 THEN "generate"
    ELSE IF Len(s.historical_questions) > RetryCeiling THEN "end"
    ELSE "rewrite"

\* decision_node that generates, instead of ending, when retries are exhausted
decision_node_GenerateOnExhaustion(s) ==
    IF s.language = "unsupported" THEN "end"
    ELSE IF Len(s.docs) > 0 THEN "generate"
    ELSE IF Len(s.historical_questions) >= RetryCeiling THEN "generate"
    ELSE "rewrite"

decision_node(s) ==
    IF s.language = "unsupported" THEN "end"
    ELSE IF Len(s.docs) > 0 THEN "generate"
    ELSE IF Len(s.historical_questions) >= RetryCeiling THEN "end"
    ELSE "rewrite"

\* add_conditional_edges("grader", decision_node, {...}); reaching END
\* makes invoke return the state and ask return its Answer
Decide ==
    /\ pc = "decide"
    /\ LET d == decision_node(state)
       IN  /\ pc' = CASE d = "generate" -> "generate"
                      [] d = "rewrite" -> "rewriter"
                      [] d = "end" -> "END"
           /\ result' = IF d = "end" THEN state.Answer ELSE result
    /\ UNCHANGED <<indices, chunks_dict, metadata_dict, state, steps, gi,
                   relevant_docs, error, calls, dupHit, search_ids, kept,
                   context>>

(***************************************************************************)
(* generate_node, then the edge generate -> END.                           *)
(***************************************************************************)
\* sep.join(lst) that drops the separator
RECURSIVE Join_NoSeparator(_, _)
Join_NoSeparator(sep, lst) ==
    IF Len(lst) = 0 THEN ""
    ELSE lst[1] \o Join_NoSeparator(sep, Tail(lst))

\* sep.join(lst)
RECURSIVE Join(_, _)
Join(sep, lst) ==
    IF Len(lst) = 0 THEN ""
    ELSE IF Len(lst) = 1 THEN lst[1]
    ELSE lst[1] \o sep \o Join(sep, Tail(lst))

\* 'Answer': generation.strip()
Answered_Stripped(generation) == Strip(generation)

\* 'Answer': generation
Answered(generation) == generation

generate_node ==
    /\ pc = "generate"
    /\ steps < RecursionLimit
    /\ context' = Join("\n\n", state.docs)
    /\ \E generation \in GenerateOutputs \cup {LLMError} :
        IF generation = LLMError
        THEN /\ Raise("LLMError")
             /\ UNCHANGED <<state, steps, result>>
        ELSE /\ state' = [state EXCEPT !.Answer = Answered(generation)]
             /\ pc' = "END"
             /\ steps' = steps + 1
             /\ result' = state'.Answer
             /\ UNCHANGED error
    /\ calls' = [calls EXCEPT !.generate = @ + 1, !.llm = @ + 1]
    /\ UNCHANGED <<indices, chunks_dict, metadata_dict, gi, relevant_docs,
                   dupHit, search_ids, kept>>

(***************************************************************************)
(* rewriter_node, then the edge rewriter -> retriever.                     *)
(***************************************************************************)
\* `if question in historical_questions`: no LLM call
RewriteDuplicate ==
    /\ pc = "rewriter"
    /\ steps < RecursionLimit
    /\ InList(state.question, state.historical_questions)
    /\ state' = [state EXCEPT !.Answer = NotFoundMsg(state.language), !.docs = <<>>]
    /\ pc' = "retriever"
    /\ steps' = steps + 1
    /\ dupHit' = TRUE
    /\ calls' = [calls EXCEPT !.rewrite = @ + 1]
    /\ UNCHANGED <<indices, chunks_dict, metadata_dict, gi, relevant_docs,
                   error, result, search_ids, kept, context>>

\* historical_questions = [question]: the history is replaced
AppendQuestion_Replaces(history, question) == <<question>>

\* historical_questions.append(question)
AppendQuestion(history, question) == Append(history, question)

\* the rewrites as the LLM gives them, without .strip()
Stripped_Raw == [output \in RewriterOutputs |-> output]

\* .strip() of each rewrite the LLM gives
Stripped == [output \in RewriterOutputs |-> Strip(output)]

\* historical_questions.append(question), then the LLM rewrites the
\* question: it answers `output`
Rewrite(output) ==
    /\ pc = "rewriter"
    /\ steps < RecursionLimit
    /\ ~InList(state.question, state.historical_questions)
    /\ LET history == AppendQuestion(state.historical_questions, state.question)
       IN   IF output = LLMError
            THEN /\ Raise("LLMError")
                 /\ state' = [state EXCEPT !.historical_questions = history]
                 /\ UNCHANGED steps
            ELSE /\ state' = [state EXCEPT !.question = Stripped[output],
                                           !.Answer = "",
                                           !.docs = <<>>,
                                           !.historical_questions = history]
                 /\ pc' = "retriever"
                 /\ steps' = steps + 1
                 /\ UNCHANGED error
    /\ calls' = [calls EXCEPT !.rewrite = @ + 1, !.llm = @ + 1,
                              !.rewrite_llm = @ + 1]
    /\ UNCHANGED <<indices, chunks_dict, metadata_dict, gi, relevant_docs,
                   result, dupHit, search_ids, kept, context>>

RewriteQuery ==
    \E output \in RewriterOutputs \cup {LLMError} : Rewrite(output)

rewriter_node ==
    \/ RewriteDuplicate
    \/ RewriteQuery

(***************************************************************************)
(* The specification.                                                      *)
(***************************************************************************)
\* one ask invocation, alone on the agent
Next ==
    \/ /\ \E question \in Questions, label \in DetectorLabels \cup {DetectorError} :
            Ask(question, label)
       /\ UNCHANGED <<invocations, build>>
    \/ RetrieveUnsupported /\ UNCHANGED <<invocations, build>>
    \/ RetrieveNoIndex /\ UNCHANGED <<invocations, build>>
    \/ RetrieveEncodeFails /\ UNCHANGED <<invocations, build>>
    \/ RetrieveSearchFails /\ UNCHANGED <<invocations, build>>
    \/ RetrieveSearch /\ UNCHANGED <<invocations, build>>
    \/ GraderEnter /\ UNCHANGED <<invocations, build>>
    \/ GraderStep /\ UNCHANGED <<invocations, build>>
    \/ GraderReturn /\ UNCHANGED <<invocations, build>>
    \/ Decide /\ UNCHANGED <<invocations, build>>
    \/ generate_node /\ UNCHANGED <<invocations, build>>
    \/ RewriteDuplicate /\ UNCHANGED <<invocations, build>>
    \/ RewriteQuery /\ UNCHANGED <<invocations, build>>
    \/ GraphRecursionError /\ UNCHANGED <<invocations, build>>

Spec == Init /\ [][Next]_vars

(***************************************************************************)
(* Repeated invocations on one agent, with deterministic collaborators.    *)
(***************************************************************************)
\* ask has returned, or its exception has reached the caller: the agent is
\* free for the next call.  The AgentState object is left as garbage.
Return ==
    /\ pc \in {"END", "raised"}
    /\ pc' = "idle"
    /\ ref' = IF ref[trace[1]] = NoRef
              THEN [ref EXCEPT ![trace[1]] =
                        [trace |-> trace, result |-> result, error |-> error,
                         state |-> state]]
              ELSE ref
    /\ trace' = <<>>
    /\ steps' = 0
    /\ error' = "none"
    /\ result' = ""
    /\ calls' = NoCalls
    /\ dupHit' = FALSE
    /\ search_ids' = <<>>
    /\ kept' = <<>>
    /\ context' = ""
    /\ UNCHANGED <<indices, chunks_dict, metadata_dict, state, gi,
                   relevant_docs, memo, asks, other, build>>

\* a collaborator that forgets what it answered: it may answer anew
Deterministic_Forgets(input, outcome) == memo' = memo

\* a deterministic collaborator: to an input it was given before it gives
\* the outcome (value or exception) it gave then
Deterministic(input, outcome) ==
    IF input \in DOMAIN memo
    THEN memo[input] = outcome /\ memo' = memo
    ELSE memo' = (input :> outcome) @@ memo

\* the node the step moved to is added to the invocation's trace
Traced ==
    trace' = IF pc' = pc THEN trace ELSE Append(trace, pc')

\* self.language_detector(text)
DetAsk(question, label) ==
    /\ Ask(question, label)
    /\ Deterministic(<<"detect", question>>, state'.language)
    /\ trace' = <<question, pc'>>
    /\ asks' = asks + 1
    /\ UNCHANGED <<ref, other, build>>

\* self.model.encode([question]) and self.indices[language].search(v, 10);
\* an index ranks its passages in one order, whatever the question
DetSearch(question, language) ==
    Deterministic(<<"search", language>>, <<error', state'.docs>>)

\* grader_chain.invoke({"question": question, "document": doc})
DetGrade(question, language, doc) ==
    Deterministic(<<"grade", language, question, doc>>,
                  Len(relevant_docs') > Len(relevant_docs))

\* rag_chain.invoke({"context": context, "question": question})
DetGenerate(question, language) ==
    Deterministic(<<"generate", language, question, context'>>,
                  <<error', state'.Answer>>)

\* rewrite_chain.invoke({"question": question}), the rewrites among `rewrites`
DetRewrite(question, language, rewrites) ==
    /\ Deterministic(<<"rewrite", language, question>>, <<error', state'.question>>)
    /\ state'.question \in rewrites

\* a step of the running invocation, its collaborators deterministic
DetStep(rewrites) ==
    \/ RetrieveUnsupported /\ Traced /\ UNCHANGED <<memo, ref, asks, other, build>>
    \/ RetrieveNoIndex /\ Traced /\ UNCHANGED <<memo, ref, asks, other, build>>
    \/ /\ RetrieveEncodeFails
       /\ DetSearch(state.question, state.language)
       /\ Traced /\ UNCHANGED <<ref, asks, other, build>>
    \/ /\ RetrieveSearchFails
       /\ DetSearch(state.question, state.language)
       /\ Traced /\ UNCHANGED <<ref, asks, other, build>>
    \/ /\ RetrieveSearch
       /\ DetSearch(state.question, state.language)
       /\ Traced /\ UNCHANGED <<ref, asks, other, build>>
    \/ GraderEnter /\ Traced /\ UNCHANGED <<memo, ref, asks, other, build>>
    \/ /\ GraderStep
       /\ DetGrade(state.question, state.language, state.docs[gi])
       /\ Traced /\ UNCHANGED <<ref, asks, other, build>>
    \/ GraderReturn /\ Traced /\ UNCHANGED <<memo, ref, asks, other, build>>
    \/ Decide /\ Traced /\ UNCHANGED <<memo, ref, asks, other, build>>
    \/ /\ generate_node
       /\ DetGenerate(state.question, state.language)
       /\ Traced /\ UNCHANGED <<ref, asks, other, build>>
    \/ RewriteDuplicate /\ Traced /\ UNCHANGED <<memo, ref, asks, other, build>>
    \/ /\ RewriteQuery
       /\ DetRewrite(state.question, state.language, rewrites)
       /\ Traced /\ UNCHANGED <<ref, asks, other, build>>
    \/ GraphRecursionError /\ Traced /\ UNCHANGED <<memo, ref, asks, other, build>>

\* as many queries as the retry test of decision_node lets through
RetryQueries == {QueryText(i) : i \in 0..(RetryCeiling - 1)}

\* ask called again with a question it was called with before, each call
\* after the previous one is over
NextDet ==
    \/ \E question \in Questions, label \in DetectorLabels \cup {DetectorError} :
            /\ asks < MaxAsks
            /\ asks > 0 => ref[question] # NoRef
            /\ DetAsk(question, label)
    \/ DetStep(RetryQueries)
    \/ Return

SpecDet == Init /\ [][NextDet]_vars

(***************************************************************************)
(* grader_docs_node as a function of its input: the graph enters it with   *)
(* the candidates of a search, and the LLM's response to each document is  *)
(* fixed beforehand.                                                       *)
(***************************************************************************)
\* the LLM's response to the grading prompt of a document
Response(doc) == memo[<<"response", state.language, state.question, doc>>]

\* the first time the graph enters grader_docs_node: ask detected a
\* supported language and retriever_node searched its loaded index
InitGrade ==
    /\ Constructed
    /\ \E question \in Questions, language \in Languages :
        /\ indices[language].loaded
        /\ indices[language].ntotal > 0
        /\ \E ids \in SearchResults(indices[language].ntotal, K) :
            /\ state = [question |-> question, Answer |-> "",
                        docs |-> context_chunks(chunks_dict[language], ids),
                        historical_questions |-> <<>>, language |-> language]
            /\ search_ids = ids
        /\ memo \in [{<<"response", language, question, chunks_dict[language][i]>> :
                        i \in 1..Len(chunks_dict[language])}
                     -> GraderOutputs \cup {LLMError}]
    /\ pc = "grader"
    /\ steps = 1
    /\ gi = 0
    /\ relevant_docs = <<>>
    /\ error = "none"
    /\ result = ""
    /\ calls = [NoCalls EXCEPT !.detect = 1, !.retrieve = 1, !.encode = 1,
                               !.search = 1]
    /\ dupHit = FALSE
    /\ kept = <<>>
    /\ context = ""
    /\ trace = <<>>
    /\ ref = [question \in Questions |-> NoRef]
    /\ asks = 0
    /\ other = NoInvocation
    /\ build = NoBuild

NextGrade ==
    \/ GraderEnter /\ UNCHANGED <<invocations, build>>
    \/ /\ gi \in 1..Len(state.docs)
       /\ GraderIteration(Response(state.docs[gi]))
       /\ UNCHANGED <<invocations, build>>
    \/ GraderReturn /\ UNCHANGED <<invocations, build>>

SpecGrade == InitGrade /\ [][NextGrade]_vars

(***************************************************************************)
(* Two invocations interleaved on the agent that load_agent of src/main.py *)
(* caches and every session shares.                                        *)
(***************************************************************************)
\* the locals of the running invocation: the AgentState that ask built and
\* the graph threads through the nodes, and the locals of the node at work
Invocation ==
    [state |-> state, pc |-> pc, steps |-> steps, gi |-> gi,
     relevant_docs |-> relevant_docs, error |-> error, result |-> result,
     calls |-> calls, dupHit |-> dupHit, search_ids |-> search_ids,
     kept |-> kept, context |-> context, trace |-> trace]

\* the scheduler switches as if relevant_docs were an attribute of the agent
Switch_SharesRelevantDocs ==
    /\ other' = Invocation
    /\ state' = other.state
    /\ pc' = other.pc
    /\ steps' = other.steps
    /\ gi' = other.gi
    /\ error' = other.error
    /\ result' = other.result
    /\ calls' = other.calls
    /\ dupHit' = other.dupHit
    /\ search_ids' = other.search_ids
    /\ kept' = other.kept
    /\ context' = other.context
    /\ trace' = other.trace
    /\ UNCHANGED <<indices, chunks_dict, metadata_dict, relevant_docs, memo,
                   ref, asks, build>>

\* the scheduler suspends the running invocation and resumes the other one:
\* each thread has its own frames, the agent's attributes are shared
Switch ==
    /\ other' = Invocation
    /\ state' = other.state
    /\ pc' = other.pc
    /\ steps' = other.steps
    /\ gi' = other.gi
    /\ relevant_docs' = other.relevant_docs
    /\ error' = other.error
    /\ result' = other.result
    /\ calls' = other.calls
    /\ dupHit' = other.dupHit
    /\ search_ids' = other.search_ids
    /\ kept' = other.kept
    /\ context' = other.context
    /\ trace' = other.trace
    /\ UNCHANGED <<indices, chunks_dict, metadata_dict, memo, ref, asks,
                   build>>

\* one deployment: the Arabic index failed to load, the English one holds
\* a single passage
InitConc ==
    /\ Init
    /\ ~indices["arabic"].loaded
    /\ indices["english"] = [loaded |-> TRUE, ntotal |-> 1]

\* a first ask runs alone; then ask is called with the same question while
\* another session calls it too
NextConc ==
    \/ \E question \in Questions, label \in DetectorLabels \cup {DetectorError} :
            /\ \/ asks = 0
               \/ asks = 1 /\ ref[question] # NoRef
               \/ asks = 2 /\ other.pc # "idle"
            /\ DetAsk(question, label)
    \/ DetStep(Questions)
    \/ Return
    \/ asks >= 2 /\ Switch

SpecConc == InitConc /\ [][NextConc]_vars

(***************************************************************************)
(* Chunking_embedding.py: the script that builds a FAISS index and the     *)
(* pickle of its passages from the files of FILES_TO_PROCESS.              *)
(***************************************************************************)
FILES_TO_PROCESS ==
    <<"Dataset/_ALL_ARAB_HERITAGE_EN.txt", "Dataset/_ALL_ARAB_HERITAGE_AR.txt">>

\* the texts text_splitter.split_text may cut a file into
ChunkTexts == {"Petra", "Baalbek"}

\* what split_text returns for a file: up to MaxPassages chunks
FileChunks == UNION {[1..n -> ChunkTexts] : n \in 0..MaxPassages}

\* '_EN.txt' in file / '_AR.txt' in file
FileLanguage(file) ==
    IF Contains(file, "_EN.txt") THEN "English"
    ELSE IF Contains(file, "_AR.txt") THEN "Arabic"
    ELSE "Unknown"

\* os.path.basename(file)
RECURSIVE Basename(_)
Basename(file) ==
    IF \E i \in 1..Len(file) : SubSeq(file, i, i) = "/"
    THEN Basename(SubSeq(file, 2, Len(file)))
    ELSE file

\* the vector model.encode gives for one chunk
Embedding(chunk) == "vector of " \o chunk

\* model.encode(file_chunks): one vector per chunk, in the order of the chunks
encode(file_chunks) ==
    [i \in 1..Len(file_chunks) |-> Embedding(file_chunks[i])]

\* one metadata entry for the whole file
FileMetadata_OnePerFile(file, file_chunks) ==
    <<[language |-> FileLanguage(file), source_file |-> Basename(file)]>>

\* the entries the inner loop appends to metadata: one per chunk
FileMetadata(file, file_chunks) ==
    [i \in 1..Len(file_chunks) |->
        [language |-> FileLanguage(file), source_file |-> Basename(file)]]

\* the loop has a file left to process
InLoop == build.error = "none" /\ build.file <= Len(FILES_TO_PROCESS)

\* `if not os.path.exists(file): continue`
BuildSkipMissing ==
    /\ InLoop
    /\ build' = [build EXCEPT !.file = @ + 1]

\* open or f.read() raises: nothing catches it, the script ends
BuildReadFails ==
    /\ InLoop
    /\ build' = [build EXCEPT !.error = "OSError"]

\* one iteration on a file that splits into chunks
BuildAdd(file_chunks) ==
    /\ InLoop
    /\ file_chunks # <<>>
    /\ build' = [build EXCEPT
            !.index = @ \o encode(file_chunks),
            !.chunks = @ \o file_chunks,
            !.metadata = @ \o FileMetadata(FILES_TO_PROCESS[build.file],
                                           file_chunks),
            !.file = @ + 1]

BuildAddChunks == \E file_chunks \in FileChunks : BuildAdd(file_chunks)

\* a file that splits into no chunk, where index.add accepts the empty
\* array model.encode([]) returns: nothing is added
BuildAddNothing ==
    /\ InLoop
    /\ build' = [build EXCEPT
            !.index = @ \o encode(<<>>),
            !.chunks = @ \o <<>>,
            !.metadata = @ \o FileMetadata(FILES_TO_PROCESS[build.file], <<>>),
            !.file = @ + 1]

\* a file that splits into no chunk, where index.add rejects the array of
\* shape (0,): the script ends before anything is appended
BuildAddRaises ==
    /\ InLoop
    /\ build' = [build EXCEPT !.error = "ValueError"]

\* faiss.write_index and pickle.dump after the loop
BuildSave ==
    /\ build.error = "none"
    /\ build.file > Len(FILES_TO_PROCESS)
    /\ ~build.saved
    /\ build' = [build EXCEPT !.saved = TRUE]

NextBuild ==
    \/ BuildSkipMissing /\ UNCHANGED <<vars_agent, invocations>>
    \/ BuildReadFails /\ UNCHANGED <<vars_agent, invocations>>
    \/ BuildAddChunks /\ UNCHANGED <<vars_agent, invocations>>
    \/ BuildAddNothing /\ UNCHANGED <<vars_agent, invocations>>
    \/ BuildAddRaises /\ UNCHANGED <<vars_agent, invocations>>
    \/ BuildSave /\ UNCHANGED <<vars_agent, invocations>>

\* the script runs before any agent is constructed
SpecBuild == InitLoad /\ [][NextBuild]_vars

(***************************************************************************)
(* Properties of one ask invocation.                                       *)
(***************************************************************************)
\* exceptions raised by a collaborator call (encoder, index, LLM)
CollaboratorErrors == {"EncodeError", "SearchError", "IndexError", "LLMError"}

\* ask has stopped: it returned or an exception left it
Stopped == pc \in {"END", "raised"}

\* the question's language is supported and its index was loaded
IndexAvailable == state.language \in Languages /\ indices[state.language].loaded

\* the question's language is supported and its index failed to load
IndexUnavailable == state.language \in Languages /\ ~indices[state.language].loaded

\* C1: every ask invocation reaches END, whatever strings the LLM returns
\* for grading and for rewriting: an invocation none of whose collaborator
\* calls failed never stops anywhere but at END.
C1_AskReachesEnd ==
    (pc = "raised") => (error \in CollaboratorErrors)

\* C2: once REWRITE has found the question in historical_questions, the
\* invocation ends there: RETRIEVE is not visited again.
C2_NoRetrieveAfterDuplicate ==
    [][dupHit => calls'.retrieve = calls.retrieve]_vars

\* C3: ask never raises to its caller: no exception leaves it.
C3_AskNeverRaises ==
    pc # "raised" /\ error = "none"

\* C4: when ask ends from DECIDE with no relevant document, in a supported
\* language whose index is available, the answer it returns is the fixed
\* "could not find relevant information" message.
C4_ExhaustionReturnsNotFound ==
    (pc = "END" /\ calls.generate = 0 /\ IndexAvailable)
        => (result = NotFoundMsg(state.language))

\* C5: an invocation performs at most 3 retrieval/grading rounds, and
\* exactly 3 when it ends without any round having kept a document.
C5_AtMostThreeRounds ==
    /\ calls.retrieve <= 3
    /\ calls.grade <= 3
    /\ (pc = "END" /\ calls.generate = 0 /\ IndexAvailable) => (calls.retrieve = 3)

\* C6: when grading keeps no candidate in any round (supported language, no
\* collaborator failure), ask terminates, at END, after exactly 3 visits of
\* REWRITE.
C6_ThreeRewritesThenEnd ==
    (Stopped /\ calls.generate = 0 /\ state.language \in Languages
        /\ error \notin CollaboratorErrors)
        => (pc = "END" /\ calls.rewrite = 3)

\* C7: once grading has kept a document and GENERATE has run, ask has
\* returned, from GENERATE, a non-empty answer.
C7_GenerateReturnsText ==
    (calls.generate > 0) => (pc = "END" /\ result # "")

\* C8: when the index of the question's language failed to load, no REWRITE
\* runs, RETRIEVE runs at most once and no LLM, encoder or search call is made.
C8_IndexUnavailableShortCircuits ==
    IndexUnavailable =>
        /\ calls.rewrite = 0
        /\ calls.retrieve <= 1
        /\ calls.llm = 0
        /\ calls.encode = 0
        /\ calls.search = 0

\* C9: when the index of the question's language failed to load, ask returns
\* the fixed index-unavailable apology, whatever the rewriter answers.
C9_IndexUnavailableReturnsApology ==
    (IndexUnavailable /\ Stopped /\ error # "LLMError")
        => (pc = "END" /\ result = IndexMsg(state.language))

\* C10: when the detected language is unsupported, ask makes no encode and no
\* search call, never visits REWRITE or GENERATE, does not raise, and the
\* answer it returns is the fixed unsupported-language message.
C10_UnsupportedLanguage ==
    (pc # "idle" /\ state.language = "unsupported") =>
        /\ calls.encode = 0
        /\ calls.search = 0
        /\ calls.rewrite = 0
        /\ calls.generate = 0
        /\ pc \in {"retriever", "grader", "decide", "END"}
        /\ calls.retrieve <= 1
        /\ (pc = "END" => result = UnsupportedMsg)

\* an ask on an unsupported language has returned after its single RETRIEVE
C10_Witness ==
    /\ pc = "END"
    /\ state.language = "unsupported"
    /\ calls.retrieve = 1
    /\ calls.grade = 1
    /\ result = UnsupportedMsg

(***************************************************************************)
(* Properties of the nodes and of the Query State.                         *)
(***************************************************************************)
\* a is b with zero or more elements removed
RECURSIVE IsSubseq(_, _)
IsSubseq(a, b) ==
    IF Len(a) = 0 THEN TRUE
    ELSE IF Len(b) = 0 THEN FALSE
    ELSE IF Head(a) = Head(b) THEN IsSubseq(Tail(a), Tail(b))
    ELSE IsSubseq(a, Tail(b))

NoDuplicates(lst) == \A i, j \in 1..Len(lst) : i # j => lst[i] # lst[j]

\* the texts of the passages the round's search returned, in its order
RetrievalResult ==
    IF search_ids = <<>> THEN <<>>
    ELSE LET chunks == chunks_dict[state.language]
         IN  [i \in 1..Len(search_ids) |->
                IF search_ids[i] >= 0 THEN chunks[search_ids[i] + 1]
                ELSE chunks[Len(chunks) + 1 + search_ids[i]]]

\* C13: the decision maps every state to one outcome by the transition
\* table: END for an unsupported language; otherwise GENERATE when docs is
\* non-empty; otherwise REWRITE when fewer than 3 questions are in the
\* history; otherwise END.  It changes nothing in the Query State.
C13_DecisionTable ==
    [][(pc = "decide") =>
        /\ state' = state
        /\ pc' = IF state.language = "unsupported" THEN "END"
                 ELSE IF state.docs # <<>> THEN "generate"
                 ELSE IF Len(state.historical_questions) < 3 THEN "rewriter"
                 ELSE "END"]_vars

\* the decision ended an invocation whose history had reached 3 questions
C13_Witness ==
    /\ pc = "END"
    /\ calls.generate = 0
    /\ state.language \in Languages
    /\ Len(state.historical_questions) = 3
    /\ state.docs = <<>>

\* C14: RETRIEVE is never about to run with a current question that is
\* already in historical_questions.
C14_NoRetryOfTriedQuestion ==
    (pc = "retriever") =>
        ~(\E i \in 1..Len(state.historical_questions) :
            state.historical_questions[i] = state.question)

\* C15: within an invocation every step leaves historical_questions
\* unchanged or appends the current question to it.
C15_HistoryOnlyGrows ==
    [][(pc # "idle") =>
        \/ state'.historical_questions = state.historical_questions
        \/ state'.historical_questions =
                state.historical_questions \o <<state.question>>]_vars

\* the history has grown twice
C15_Witness ==
    /\ pc = "retriever"
    /\ Len(state.historical_questions) = 2

\* C16: historical_questions never holds a question twice.
C16_NoDuplicateHistory ==
    NoDuplicates(state.historical_questions)

\* a full history: three distinct questions
C16_Witness ==
    /\ Len(state.historical_questions) = 3
    /\ pc = "grader"

\* C17: docs never accumulates: after RETRIEVE it is the round's retrieval
\* result, after GRADE a subsequence of it, after REWRITE empty.
C17_DocsOfLatestRound ==
    /\ (pc = "grader" /\ gi = 0) => (state.docs = RetrievalResult)
    /\ (pc = "decide") => IsSubseq(state.docs, RetrievalResult)
    /\ (pc = "retriever" /\ calls.rewrite > 0) => (state.docs = <<>>)

\* a later round's grading kept some, not all, of what that round retrieved
C17_Witness ==
    /\ pc = "decide"
    /\ calls.retrieve >= 2
    /\ Len(state.docs) >= 1
    /\ Len(state.docs) < Len(RetrievalResult)

\* C18: GENERATE is only entered with non-empty docs.
C18_GenerateHasDocs ==
    (pc = "generate") => (Len(state.docs) > 0)

\* GENERATE is about to run
C18_Witness ==
    /\ pc = "generate"
    /\ Len(state.docs) > 0

\* the texts of lst, in order, with a blank line between neighbours
RECURSIVE BlankLineSeparated(_)
BlankLineSeparated(lst) ==
    IF Len(lst) = 0 THEN ""
    ELSE IF Len(lst) = 1 THEN Head(lst)
    ELSE Head(lst) \o "\n\n" \o BlankLineSeparated(Tail(lst))

\* C19: GENERATE runs at most once per invocation and the context of its
\* prompt is the documents the preceding GRADE kept, in their order, joined
\* by a double newline.
C19_GenerateOnceWithKeptDocs ==
    /\ calls.generate <= 1
    /\ (calls.generate = 1) => (context = BlankLineSeparated(kept))

\* GENERATE has run on two different kept documents
C19_Witness ==
    /\ calls.generate = 1
    /\ Len(kept) >= 2
    /\ kept[1] # kept[2]

\* C20: the docs GRADE returns are a subsequence of the docs it was given.
C20_GradeIsOrderPreservingFilter ==
    [][(pc = "grader" /\ pc' = "decide") =>
            IsSubseq(state'.docs, state.docs)]_vars

\* GRADE kept at least two, and dropped at least one, of its candidates
C20_Witness ==
    /\ pc = "decide"
    /\ Len(state.docs) >= 2
    /\ Len(state.docs) < K
    /\ state.docs[1] # state.docs[2]

(***************************************************************************)
(* Properties of repeated and of interleaved invocations.                  *)
(***************************************************************************)
\* how the running invocation went: the nodes it went through, what ask
\* returned or raised, and the AgentState it ended with
Outcome == [trace |-> trace, result |-> result, error |-> error, state |-> state]

\* the first completed ask of the question the running invocation was asked
First == ref[trace[1]]

\* C11: with the index unchanged and the detector, the encoder, the index
\* and the LLM deterministic, a second ask of a question goes through the
\* nodes the first one went through, and ends as the first one ended: same
\* returned answer, same exception if any, same final AgentState.
C11_SameStatesSameAnswer ==
    (pc # "idle" /\ First # NoRef) =>
        /\ Len(trace) <= Len(First.trace)
        /\ trace = SubSeq(First.trace, 1, Len(trace))
        /\ Stopped => Outcome = First

\* the second ask of a question has returned a generated answer after a
\* rewrite, as the first one did
C11_Witness ==
    /\ asks = MaxAsks
    /\ pc = "END"
    /\ First # NoRef
    /\ calls.generate = 1
    /\ calls.rewrite > 0
    /\ result # ""
    /\ result = First.result

\* C12: of two invocations interleaved on the shared agent, a step of one
\* leaves the locals of the other (its AgentState and its node's locals)
\* as they are: they change hands only when the scheduler switches, and
\* whole.  An invocation of a question that was asked alone before ends
\* as that one ended, whatever the other invocation does meanwhile.
C12_InvocationsIsolated ==
    [][/\ (other' # other) => (other' = Invocation /\ Invocation' = other)
       /\ (pc' \in {"END", "raised"} /\ ref'[trace'[1]] # NoRef) =>
              [trace |-> trace', result |-> result', error |-> error',
               state |-> state'] = ref'[trace'[1]]]_vars

\* an invocation has returned the generated answer it returned when it ran
\* alone, while the other session's invocation, of another question, is
\* under way between two nodes
C12_Witness ==
    /\ pc = "END"
    /\ First # NoRef
    /\ Outcome = First
    /\ calls.generate = 1
    /\ other.pc \in Nodes
    /\ other.steps > 0
    /\ other.trace[1] # trace[1]

(***************************************************************************)
(* Properties of grader_docs_node.                                         *)
(***************************************************************************)
\* the document's response kept it
KeptByVerdict(doc) == Response(doc) # LLMError /\ GraderVerdict[Response(doc)]

\* C21: an LLM error on one candidate drops that candidate and nothing
\* else: the loop moves on to the next candidate inside the node, nothing
\* is raised, and when the node returns every candidate has been graded
\* and the candidates judged relevant are in docs, the failed ones are not.
C21_GradingErrorIsolated ==
    [][/\ (/\ pc = "grader"
           /\ gi \in 1..Len(state.docs)
           /\ Response(state.docs[gi]) = LLMError)
          => /\ relevant_docs' = relevant_docs
             /\ gi' = gi + 1
             /\ pc' = "grader"
             /\ error' = "none"
       /\ (pc = "grader" /\ pc' # "grader")
          => /\ pc' = "decide"
             /\ error' = "none"
             /\ calls'.llm = Len(state.docs)
             /\ \A i \in 1..Len(state.docs) :
                    InList(state.docs[i], state'.docs) <=> KeptByVerdict(state.docs[i])
      ]_vars

\* the node has returned: the LLM failed on a candidate, and a candidate
\* after it was judged relevant and is in docs
C21_Witness ==
    /\ pc = "decide"
    /\ \E i, j \in 1..Len(RetrievalResult) :
        /\ i < j
        /\ Response(RetrievalResult[i]) = LLMError
        /\ KeptByVerdict(RetrievalResult[j])
        /\ InList(RetrievalResult[j], state.docs)

\* the response has "yes" in it, whatever the case of its letters
SaysYes(response) == response # LLMError /\ Contains(Lower(response), "yes")

\* the candidate's response says yes
CandidateSaysYes(doc) == SaysYes(Response(doc))

\* C22: the candidates GRADE keeps are exactly those whose response has
\* "yes" as a substring, letter case ignored; a candidate with any other
\* response, or with an LLM error, is dropped.
C22_KeepsIffYes ==
    (pc = "decide") =>
        /\ kept = SelectSeq(RetrievalResult, CandidateSaysYes)
        /\ state.docs = kept

\* the node has returned: it kept a candidate on a capitalised, padded
\* "Yes." and dropped one on a verbose no
C22_Witness ==
    /\ pc = "decide"
    /\ \E i, j \in 1..Len(RetrievalResult) :
        /\ Response(RetrievalResult[i]) = " Yes.\n"
        /\ InList(RetrievalResult[i], kept)
        /\ Response(RetrievalResult[j]) = "No, unrelated."
        /\ ~InList(RetrievalResult[j], kept)

\* how many times the text stands in the list
Count(lst, doc) == Cardinality({i \in 1..Len(lst) : lst[i] = doc})

\* C29: with responses that depend on the (question, document) pair only,
\* what GRADE keeps of a candidate depends on that candidate's response
\* alone, not on where it stands or on what was graded before it: every
\* occurrence of a document judged relevant is kept, none of a document
\* judged irrelevant, and the kept ones stand in input order.  Grading the
\* candidates in another order therefore keeps the same sequence.
C29_PerItemFilter ==
    (pc = "decide") =>
        /\ IsSubseq(kept, RetrievalResult)
        /\ \A i \in 1..Len(RetrievalResult) :
            LET doc == RetrievalResult[i]
            IN  Count(kept, doc) =
                    IF KeptByVerdict(doc) THEN Count(RetrievalResult, doc) ELSE 0

\* the node has returned on candidates that the search ranked in another
\* order than the index stores them: it kept some, several times one of
\* them, and dropped some
C29_Witness ==
    /\ pc = "decide"
    /\ search_ids[1] # 0
    /\ Len(kept) > 1
    /\ Len(kept) < Len(RetrievalResult)
    /\ \E i \in 1..Len(kept) : Count(kept, kept[i]) > 1

(***************************************************************************)
(* Properties of generate_node, rewriter_node, retriever_node and of the   *)
(* graph's order.                                                          *)
(***************************************************************************)
\* C23: when ask ends through GENERATE, what it returns is the text the
\* LLM gave for the generation prompt, as it gave it: Answer and the
\* returned value are that text, whitespace included.
C23_AnswerIsGenerationVerbatim ==
    (pc = "END" /\ calls.generate > 0) =>
        /\ result \in GenerateOutputs
        /\ state.Answer = result

\* ask has returned a generated text that ends with a newline
C23_Witness ==
    /\ pc = "END"
    /\ calls.generate = 1
    /\ result # ""
    /\ Strip(result) # result
    /\ state.Answer = result

\* C24: REWRITE on a question that is in historical_questions makes no LLM
\* call, leaves question and historical_questions as they are, empties
\* docs, and sets Answer to the fixed not-found message: the Arabic text
\* when the language is Arabic, the English text otherwise.
C24_DuplicateRewrite ==
    [][(/\ pc = "rewriter"
        /\ InList(state.question, state.historical_questions)
        /\ steps' = steps + 1)
       => /\ calls'.llm = calls.llm
          /\ calls'.rewrite = calls.rewrite + 1
          /\ state'.question = state.question
          /\ state'.historical_questions = state.historical_questions
          /\ state'.language = state.language
          /\ state'.docs = <<>>
          /\ state'.Answer = IF state.language = "arabic"
                             THEN NotFoundMsgAr ELSE NotFoundMsgEn
      ]_vars

\* REWRITE has just found an Arabic question in historical_questions
C24_Witness ==
    /\ pc = "retriever"
    /\ dupHit
    /\ state.language = "arabic"
    /\ state.Answer = NotFoundMsgAr
    /\ state.docs = <<>>
    /\ InList(state.question, state.historical_questions)

\* C25 as stated: REWRITE on a question that is not in
\* historical_questions appends that question to historical_questions,
\* sets question to the string the LLM gave, and empties docs and Answer.
C25_RewriteSetsServiceString ==
    [][\A output \in RewriterOutputs :
        Rewrite(output) =>
            /\ state'.historical_questions =
                    Append(state.historical_questions, state.question)
            /\ state'.question = output
            /\ state'.docs = <<>>
            /\ state'.Answer = ""
      ]_vars

\* C25 amended: REWRITE on a question that is not in historical_questions
\* appends that question (the one that failed, not the rewritten one) to
\* historical_questions, sets question to the string the LLM gave with its
\* leading and trailing whitespace removed, and empties docs and Answer.
C25_RewriteSetsStrippedString ==
    [][\A output \in RewriterOutputs :
        Rewrite(output) =>
            /\ state'.historical_questions =
                    Append(state.historical_questions, state.question)
            /\ state'.question = Strip(output)
            /\ state'.docs = <<>>
            /\ state'.Answer = ""
      ]_vars

\* REWRITE has just replaced the question of the first round by another
C25_Witness ==
    /\ pc = "retriever"
    /\ ~dupHit
    /\ calls.rewrite = 1
    /\ Len(state.historical_questions) = 1
    /\ state.question # state.historical_questions[1]
    /\ state.question \in Queries
    /\ state.docs = <<>>
    /\ state.Answer = ""

\* C26: ask starts in RETRIEVE; RETRIEVE is followed by GRADE and GRADE by
\* DECIDE; REWRITE is entered from DECIDE only; ask stops only directly
\* after GENERATE or directly after DECIDE.
C26_FixedOrder ==
    [][/\ (pc = "idle") => (pc' = "retriever")
       /\ (pc = "retriever") => (pc' = "grader")
       /\ (pc = "grader") => (pc' \in {"grader", "decide"})
       /\ (pc' = "rewriter") => (pc = "decide")
       /\ (pc' \in {"END", "raised"}) => (pc \in {"generate", "decide"})
      ]_vars

\* C27: the language is resolved once, by ask before the first RETRIEVE,
\* and no node changes it: the detector is called once per invocation and
\* every step of the invocation leaves language as it is.
C27_LanguageConstant ==
    [][/\ (pc = "idle") =>
            /\ pc' = "retriever"
            /\ calls'.detect = 1
            /\ calls'.retrieve = 0
            /\ state'.language \in Languages \cup {"unsupported"}
       /\ (pc # "idle") =>
            /\ state'.language = state.language
            /\ calls'.detect = calls.detect
      ]_vars

\* an Arabic question has been answered after a rewrite, still as Arabic
C27_Witness ==
    /\ pc = "END"
    /\ calls.detect = 1
    /\ calls.rewrite > 0
    /\ calls.generate = 1
    /\ state.language = "arabic"

\* the id is the id of a passage, not the marker of a missing neighbour
IsPassageId(id) == id >= 0

\* the texts of the passages among ids, in the order of ids
PassageTexts(chunks, ids) ==
    LET neighbours == SelectSeq(ids, IsPassageId)
    IN  [i \in 1..Len(neighbours) |-> chunks[neighbours[i] + 1]]

\* C28: with a supported language and a loaded index, RETRIEVE sets docs
\* to the texts of the passages the search returned, one per passage id,
\* in the order of the search, and nothing else.
C28_DocsAreSearchResult ==
    [][(pc = "retriever" /\ pc' = "grader" /\ IndexAvailable) =>
            state'.docs = PassageTexts(chunks_dict[state.language], search_ids')
      ]_vars

\* C30: no step of any ask invocation changes the agent's indices, passage
\* lists or metadata: they stay as the constructor left them.
C30_IndexReadOnly ==
    [][/\ indices' = indices
       /\ chunks_dict' = chunks_dict
       /\ metadata_dict' = metadata_dict
      ]_vars

\* a later ask has stopped after searching a loaded index twice
C30_Witness ==
    /\ asks = MaxAsks
    /\ Stopped
    /\ calls.search > 1
    /\ IndexAvailable
    /\ Len(chunks_dict[state.language]) = indices[state.language].ntotal

(***************************************************************************)
(* Properties of the constructor's load_index calls.                       *)
(***************************************************************************)
\* the files from which load_index cannot read an index and its passages
LoadFails(index_file, pkl_file) ==
    \/ ~index_file.readable
    \/ ~pkl_file.unpickles
    \/ pkl_file.keys # PklKeys

\* C31: load_index does not raise.  If reading the index file or the
\* passage file fails at any step, also after the index file was read, the
\* language's index is None and its passage list and metadata are empty;
\* otherwise they are what the files hold.  The entries of the other
\* language are left as they were.
C31_LoadFailureContained ==
    [][\A language \in Languages, index_file \in IndexFiles,
         pkl_file \in PklFiles :
        LoadIndex(language, index_file, pkl_file) =>
            /\ pc' # "raised"
            /\ error' = "none"
            /\ language \in DOMAIN indices'
            /\ language \in DOMAIN chunks_dict'
            /\ language \in DOMAIN metadata_dict'
            /\ LoadFails(index_file, pkl_file) =>
                    /\ ~indices'[language].loaded
                    /\ chunks_dict'[language] = <<>>
                    /\ metadata_dict'[language] = <<>>
            /\ ~LoadFails(index_file, pkl_file) =>
                    /\ indices'[language] =
                            [loaded |-> TRUE, ntotal |-> index_file.ntotal]
                    /\ Len(chunks_dict'[language]) = pkl_file.n
                    /\ Len(metadata_dict'[language]) = pkl_file.n
            /\ \A l \in DOMAIN indices \ {language} :
                    /\ indices'[l] = indices[l]
                    /\ chunks_dict'[l] = chunks_dict[l]
                    /\ metadata_dict'[l] = metadata_dict[l]
      ]_vars

\* the constructor is over: Arabic is loaded with passages, English failed
C31_Witness ==
    /\ pc = "idle"
    /\ DOMAIN indices = Languages
    /\ indices["arabic"].loaded
    /\ Len(chunks_dict["arabic"]) > 0
    /\ ~indices["english"].loaded
    /\ chunks_dict["english"] = <<>>
    /\ metadata_dict["english"] = <<>>

(***************************************************************************)
(* Properties of the index build.                                          *)
(***************************************************************************)
\* C32: whatever files the build loop has processed or skipped, the index
\* holds as many vectors as there are stored passage texts and metadata
\* entries, and its nth vector is the embedding of the nth passage text.
C32_VectorsMatchPassages ==
    /\ Len(build.index) = Len(build.chunks)
    /\ Len(build.metadata) = Len(build.chunks)
    /\ \A n \in 1..Len(build.chunks) :
            build.index[n] = Embedding(build.chunks[n])

\* the script has saved passages of the English file followed by passages
\* of the Arabic file
C32_Witness ==
    /\ build.saved
    /\ Len(build.chunks) > 2
    /\ build.metadata[1].language = "English"
    /\ build.metadata[Len(build.metadata)].language = "Arabic"
    /\ build.chunks[1] # build.chunks[2]

(***************************************************************************)
(* Further properties of one ask invocation.                               *)
(***************************************************************************)
\* C33: in every state of an ask invocation historical_questions holds at
\* most 3 questions, and rewriter_node has called the LLM at most 3 times.
C33_BoundedRetries ==
    /\ Len(state.historical_questions) <= 3
    /\ calls.rewrite_llm <= 3

\* the third rewrite has failed too: decision_node has ended the invocation
\* with three questions in the history
C33_Witness ==
    /\ pc = "END"
    /\ calls.generate = 0
    /\ Len(state.historical_questions) = 3
    /\ calls.rewrite_llm = 3
    /\ calls.rewrite = 3

\* C34: question and historical_questions are changed by rewriter_node
\* only (ask sets them when it builds the state): retriever_node,
\* grader_docs_node, decision_node and generate_node leave question,
\* historical_questions and language as they are; grader_docs_node, and
\* retriever_node on a supported language with a loaded index, also leave
\* Answer as it is.
C34_OnlyRewriteChangesQuestion ==
    [][/\ (pc \in {"retriever", "grader", "decide", "generate"}) =>
            /\ state'.question = state.question
            /\ state'.historical_questions = state.historical_questions
            /\ state'.language = state.language
       /\ (pc = "grader") => (state'.Answer = state.Answer)
       /\ (pc = "retriever" /\ IndexAvailable) => (state'.Answer = state.Answer)
       /\ (\/ state'.question # state.question
           \/ state'.historical_questions # state.historical_questions)
            => pc \in {"idle", "rewriter"}
      ]_vars

\* retriever_node and grader_docs_node have run on a loaded index after a
\* rewrite and after rewriter_node set the not-found message: the message
\* and the rewritten question are still there
C34_Witness ==
    /\ pc = "decide"
    /\ IndexAvailable
    /\ search_ids # <<>>
    /\ calls.rewrite_llm > 0
    /\ state.Answer = NotFoundMsg(state.language)
    /\ state.question # state.historical_questions[1]

\* the question asked, then the nodes of an invocation that passes
\* retriever, grader and decision once each and ends
SinglePass == <<state.question, "retriever", "grader", "decide", "END">>

\* C35: when the detected language is unsupported the invocation makes no
\* LLM call; it visits RETRIEVE, GRADE and DECIDE once each, in that order,
\* and ends; GRADE is given empty docs and grades nothing; and the Answer
\* that RETRIEVE set is what ask returns.
C35_UnsupportedSinglePass ==
    (pc # "idle" /\ state.language = "unsupported") =>
        /\ calls.llm = 0
        /\ pc # "raised"
        /\ Len(trace) <= Len(SinglePass)
        /\ trace = SubSeq(SinglePass, 1, Len(trace))
        /\ pc = trace[Len(trace)]
        /\ (pc = "grader") =>
                (state.docs = <<>> /\ relevant_docs = <<>> /\ gi <= 1)
        /\ (pc \in {"grader", "decide", "END"}) =>
                (state.Answer = UnsupportedMsg /\ calls.retrieve = 1)
        /\ (pc \in {"decide", "END"}) => (calls.grade = 1 /\ kept = <<>>)
        /\ (pc = "END") => (result = UnsupportedMsg /\ trace = SinglePass)

\* a second ask of a question in an unsupported language has returned the
\* message of RETRIEVE after one pass
C35_Witness ==
    /\ pc = "END"
    /\ state.language = "unsupported"
    /\ trace = SinglePass
    /\ result = UnsupportedMsg
    /\ asks > 1
    /\ calls.llm = 0

\* the texts of a list
Texts(lst) == {lst[i] : i \in 1..Len(lst)}

\* the language that is not the given one
OtherLanguage(language) == IF language = "arabic" THEN "english" ELSE "arabic"

\* C36: every text in docs is a passage of the passage list of the
\* detected language, and none is a passage of the other language's list:
\* an Arabic question never retrieves from the English list, an English
\* question never from the Arabic one.
C36_DocsOfDetectedLanguage ==
    (pc # "idle") =>
        IF state.language \in Languages
        THEN /\ Texts(state.docs) \subseteq Texts(chunks_dict[state.language])
             /\ Texts(state.docs) \cap
                    Texts(chunks_dict[OtherLanguage(state.language)]) = {}
             /\ search_ids # <<>> => indices[state.language].loaded
        ELSE state.docs = <<>> /\ search_ids = <<>>

\* with both indices loaded, RETRIEVE has just filled docs for an Arabic
\* question
C36_Witness ==
    /\ pc = "grader"
    /\ gi = 0
    /\ state.language = "arabic"
    /\ indices["arabic"].loaded
    /\ indices["english"].loaded
    /\ chunks_dict["english"] # <<>>
    /\ state.docs # <<>>
    /\ Texts(state.docs) \subseteq Texts(chunks_dict["arabic"])

C38_NoPassageForMarkers ==
    (pc = "grader" /\ gi = 0 /\ search_ids # <<>>) =>
        /\ Len(state.docs) = Len(SelectSeq(search_ids, IsPassageId))
        /\ Len(state.docs) <= indices[state.language].ntotal
        /\ NoDuplicates(state.docs)
====
